---- MODULE Spec2Model ----
(***************************************************************************)
(* Model of searx/engines/community_scripts_proxmoxve.py: the fetcher of   *)
(* the catalogue (_fetch_scripts), the cache-backed loader (init, search)  *)
(* and the scorer/ranker.                                                  *)
(*                                                                         *)
(* A Python str is a sequence of one-character strings.  The character "#" *)
(* abbreviates a run of MAX_CACHE_VALUE_LEN incompressible characters, so  *)
(* that a record whose compressed pickle exceeds the cap can be written    *)
(* down; every other character counts one byte.                            *)
(***************************************************************************)
EXTENDS Integers, Sequences, FiniteSets, TLC

VARIABLES cache, now, last, loc, pure

vars == <<cache, now, last, loc, pure>>

-----------------------------------------------------------------------------
(* Program constants *)

CACHE_TTL == 43200
MAX_RESULTS == 20
MAX_CACHE_VALUE_LEN == 10240
CONTENT_LIMIT == 300

-----------------------------------------------------------------------------
(* Bounds of the model *)

MaxTicks == 2        \* clock advances in one behaviour
MaxStrLen == 2       \* characters of a name / description in SpecScore
MaxScoreQueryLen == 3 \* characters of a query in SpecScore
MaxListLen == 22     \* records of a loaded list in SpecRank
MaxOdd == 1          \* records of a SpecRank list that differ from the base record

-----------------------------------------------------------------------------
(* Python str operations *)

RECURSIVE SeqsUpTo(_, _)
SeqsUpTo(S, n) ==
    IF n = 0 THEN {<<>>}
    ELSE LET shorter == SeqsUpTo(S, n - 1)
         IN  shorter \cup {Append(s, c) : s \in shorter, c \in S}

\* str.lower() on one character
LowerChar(c) ==
    CASE c = "A" -> "a"
      [] c = "B" -> "b"
      [] OTHER -> c

\* str.lower()
Lower(s) == [i \in 1..Len(s) |-> LowerChar(s[i])]

\* str.isspace() on one character
IsSpace(c) == c \in {" ", "\t"}

\* str.strip()
RECURSIVE Strip(_)
Strip(s) ==
    IF s = <<>> THEN s
    ELSE IF IsSpace(Head(s)) THEN Strip(Tail(s))
    ELSE IF IsSpace(s[Len(s)]) THEN Strip(SubSeq(s, 1, Len(s) - 1))
    ELSE s

\* str.split() with no separator: runs of whitespace separate, no empty words
RECURSIVE SplitLoop(_, _, _)
SplitLoop(s, word, words) ==
    IF s = <<>> THEN (IF word = <<>> THEN words ELSE Append(words, word))
    ELSE IF IsSpace(Head(s))
         THEN SplitLoop(Tail(s), <<>>, IF word = <<>> THEN words ELSE Append(words, word))
         ELSE SplitLoop(Tail(s), Append(word, Head(s)), words)

Split(s) == SplitLoop(s, <<>>, <<>>)

\* `w in s` for two str
Contains(w, s) ==
    \E i \in 0..(Len(s) - Len(w)) : SubSeq(s, i + 1, i + Len(w)) = w

\* s.rsplit(" ", 1)[0]: the text before the last space, all of s without one
RsplitHead(s) ==
    LET spaces == {i \in 1..Len(s) : s[i] = " "}
    IN  IF spaces = {} THEN s
        ELSE SubSeq(s, 1, (CHOOSE i \in spaces : \A j \in spaces : j <= i) - 1)

-----------------------------------------------------------------------------
(* _score_script *)

\* unconditional per-word sum: the early return of the loop is lost
RECURSIVE ScoreLoopNoReturn(_, _, _, _, _)
ScoreLoopNoReturn(name_lower, desc_lower, words, k, score) ==
    IF k > Len(words) THEN score
    ELSE LET word == words[k]
             s1 == IF Contains(word, name_lower) THEN score + 10 ELSE score
             s2 == IF Contains(word, desc_lower) THEN s1 + 5 ELSE s1
         IN  ScoreLoopNoReturn(name_lower, desc_lower, words, k + 1, s2)

\* the loop of _score_script from word k on, with the score so far
RECURSIVE ScoreLoop(_, _, _, _, _)
ScoreLoop(name_lower, desc_lower, words, k, score) ==
    IF k > Len(words) THEN score
    ELSE LET word == words[k]
             inName == Contains(word, name_lower)
             inDesc == Contains(word, desc_lower)
             s1 == IF inName THEN score + 10 ELSE score
             s2 == IF inDesc THEN s1 + 5 ELSE s1
         IN  IF ~(inName \/ inDesc) THEN 0
             ELSE ScoreLoop(name_lower, desc_lower, words, k + 1, s2)

score_script(script, words) ==
    ScoreLoop(Lower(script.name), Lower(script.description), words, 1, 0)

-----------------------------------------------------------------------------
(* the tail of search: score, sort, cut, format *)

\* the comprehension of line 297: (score, script) pairs with score > 0, in order
RECURSIVE ScoredLoop(_, _, _, _)
ScoredLoop(scripts, words, k, acc) ==
    IF k > Len(scripts) THEN acc
    ELSE LET s == score_script(scripts[k], words)
         IN  ScoredLoop(scripts, words, k + 1,
                        IF s > 0 THEN Append(acc, <<s, scripts[k]>>) ELSE acc)

Scored(scripts, words) == ScoredLoop(scripts, words, 1, <<>>)

\* an unstable insertion: x goes in front of the pairs of equal score
InsertDescUnstable(sorted, x) ==
    LET before == {i \in 1..Len(sorted) : sorted[i][1] > x[1]}
        n == Cardinality(before)
    IN  SubSeq(sorted, 1, n) \o <<x>> \o SubSeq(sorted, n + 1, Len(sorted))

\* x goes behind every pair whose score is >= its own (sorted is descending)
InsertDesc(sorted, x) ==
    LET before == {i \in 1..Len(sorted) : sorted[i][1] >= x[1]}
        n == Cardinality(before)
    IN  SubSeq(sorted, 1, n) \o <<x>> \o SubSeq(sorted, n + 1, Len(sorted))

\* list.sort(key=lambda x: x[0], reverse=True): stable, descending by score
RECURSIVE SortLoop(_, _, _)
SortLoop(scored, k, sorted) ==
    IF k > Len(scored) THEN sorted
    ELSE SortLoop(scored, k + 1, InsertDesc(sorted, scored[k]))

SortDesc(scored) == SortLoop(scored, 1, <<>>)

\* scored[:_MAX_RESULTS]
Cut(scored) == SubSeq(scored, 1, IF Len(scored) < MAX_RESULTS THEN Len(scored) ELSE MAX_RESULTS)

\* the cut at the last space of the whole description, not of its first 300
ContentNoSlice(description) ==
    IF Len(description) > CONTENT_LIMIT
    THEN RsplitHead(description) \o <<".", ".", ".">>
    ELSE description

\* lines 301-303
Content(description) ==
    IF Len(description) > CONTENT_LIMIT
    THEN RsplitHead(SubSeq(description, 1, CONTENT_LIMIT)) \o <<".", ".", ".">>
    ELSE description

\* res.types.MainResult(url=..., title=..., content=...)
MainResult(script) ==
    [url |-> script.slug, title |-> script.name, content |-> Content(script.description)]

\* lines 296-311: the (score, script) pairs that become results, in order
Ranked(scripts, words) == Cut(SortDesc(Scored(scripts, words)))

Results(scripts, words) ==
    LET r == Ranked(scripts, words) IN [i \in 1..Len(r) |-> MainResult(r[i][2])]

-----------------------------------------------------------------------------
(* The remote catalogue: what _fetch_scripts can return *)

Script(slug, name, description) ==
    [name |-> name, slug |-> slug, description |-> description]

SlugA == <<"a">>
SlugB == <<"b">>

\* three versions of the catalogue; in Snap2 the record of slug a has grown
\* beyond the cache's size cap, Snap3 lists the two slugs the other way round
Snap1 == << Script(SlugA, <<"a">>, <<"b", " ", "a">>), Script(SlugB, <<"B">>, <<>>) >>
Snap2 == << Script(SlugA, <<"a", "#">>, <<"b">>), Script(SlugB, <<"b">>, <<"a">>) >>
Snap3 == << Script(SlugB, <<"b">>, <<"b">>), Script(SlugA, <<"A", "b">>, <<"a">>) >>

Catalogue == {Snap1, Snap2, Snap3}

\* the fetch returns [] on any failure
FetchResults == Catalogue \cup {<<>>}

Slugs == {SlugA, SlugB}

-----------------------------------------------------------------------------
(* pickle and zlib *)

CharBytes(c) == IF c = "#" THEN MAX_CACHE_VALUE_LEN ELSE 1

RECURSIVE StrBytes(_)
StrBytes(s) == IF s = <<>> THEN 0 ELSE CharBytes(Head(s)) + StrBytes(Tail(s))

\* pickle.dumps(script)
Dumps(script) ==
    [t |-> "pickle", obj |-> script,
     len |-> StrBytes(script.name) + StrBytes(script.slug) + StrBytes(script.description)]

\* zlib.compress(data, level=zlib.Z_BEST_COMPRESSION)
Compress(data) == [t |-> "zlib", data |-> data, len |-> data.len]

\* len(compressed_script)
BytesLen(b) == b.len

\* bytes that are no zlib stream, and a zlib stream that holds no pickle
Garbage == [t |-> "garbage", len |-> 1]
GarbageZ == [t |-> "zlib", data |-> [t |-> "garbage", len |-> 1], len |-> 1]

\* zlib.decompress raises zlib.error / pickle.loads raises UnpicklingError
DecompressOk(b) == b.t = "zlib"
Decompress(b) == b.data
LoadsOk(d) == d.t = "pickle"
Loads(d) == d.obj

-----------------------------------------------------------------------------
(* CACHE: EngineCache, a key/value store with a time-to-live per entry *)

IndexKey == <<"script_slugs_list">>
ScriptKey(slug) == <<"script_">> \o slug
Keys == {IndexKey} \cup {ScriptKey(s) : s \in Slugs}

NoneVal == [t |-> "None"]
ListVal(l) == [t |-> "list", v |-> l]
\* what an index entry may hold that is no list
NotAList == [t |-> "str"]

\* an entry is a value and the time at which it expires
Absent == [value |-> NoneVal, expire |-> 0]

\* a get that hands out an entry whatever its age
GetIgnoreExpiry(c, key, t) == c[key].value

\* CACHE.get(key) at time t
Get(c, key, t) ==
    IF c[key].value # NoneVal /\ t < c[key].expire THEN c[key].value ELSE NoneVal

\* CACHE.set(key, value, expire=expire) at time t
Set(c, key, value, expire, t) ==
    [c EXCEPT ![key] = [value |-> value, expire |-> t + expire]]

\* truth value of what CACHE.get returned
Truthy(v) == v # NoneVal

-----------------------------------------------------------------------------
(* One call of init or search, cut at its cache operations and its fetch.  *)
(* A call's local state l holds the Python locals and, as history, what    *)
(* the call has read, written and fetched.  A step takes the cache c, the  *)
(* locals l, the time t and the snapshot snap that a fetch made now        *)
(* returns, and gives the new cache and locals.                            *)

NewCall(op, query) ==
    [op |-> op, query |-> query,
     pc |-> IF op = "init" THEN "fetch" ELSE "start",
     slugs_list |-> <<>>, i |-> 1, temp_scripts |-> <<>>,
     scripts |-> <<>>, new_slugs |-> <<>>, j |-> 1,
     res |-> <<>>, ret |-> "unset",
     reads |-> <<>>, writes |-> <<>>, nfetch |-> 0, fetched |-> <<>>,
     scored |-> <<>>, ranked |-> FALSE,
     fail_at |-> 0, failed |-> FALSE]

Idle == [NewCall("none", <<>>) EXCEPT !.pc = "idle"]

\* lines 229-238 without the early return on a blank query
StepStartNoBlankCheck(c, l, t, snap) ==
    LET slugs_list == Get(c, IndexKey, t)
        l1 == [l EXCEPT !.reads = Append(@, IndexKey)]
    IN  IF slugs_list.t = "list" /\ slugs_list.v # <<>>
        THEN [c |-> c, l |-> [l1 EXCEPT !.slugs_list = slugs_list.v, !.pc = "get_entry"]]
        ELSE [c |-> c, l |-> [l1 EXCEPT !.pc = "fetch"]]

\* search, lines 229-238: the blank-query return, then the read of the index
StepStart(c, l, t, snap) ==
    IF l.query = <<>> \/ Strip(l.query) = <<>>
    THEN [c |-> c, l |-> [l EXCEPT !.res = <<>>, !.pc = "done"]]
    ELSE LET slugs_list == Get(c, IndexKey, t)
             l1 == [l EXCEPT !.reads = Append(@, IndexKey)]
         IN  IF slugs_list.t = "list" /\ slugs_list.v # <<>>
             THEN [c |-> c, l |-> [l1 EXCEPT !.slugs_list = slugs_list.v, !.pc = "get_entry"]]
             ELSE [c |-> c, l |-> [l1 EXCEPT !.pc = "fetch"]]

\* the loop body that skips a bad entry and carries on
StepGetEntrySkip(c, l, t, snap) ==
    LET slug == l.slugs_list[l.i]
        key == ScriptKey(slug)
        cached_script == Get(c, key, t)
        ok == /\ Truthy(cached_script)
              /\ DecompressOk(cached_script)
              /\ LoadsOk(Decompress(cached_script))
        l1 == [l EXCEPT !.reads = Append(@, key)]
        l2 == IF ok
              THEN [l1 EXCEPT !.temp_scripts = Append(@, Loads(Decompress(cached_script)))]
              ELSE l1
    IN  IF l.i < Len(l.slugs_list)
        THEN [c |-> c, l |-> [l2 EXCEPT !.i = @ + 1]]
        ELSE [c |-> c, l |-> [l2 EXCEPT !.scripts = l2.temp_scripts,
                                        !.pc = IF l2.temp_scripts # <<>> THEN "score" ELSE "fetch"]]

\* search, lines 242-265: one turn of the loop over slugs_list
StepGetEntry(c, l, t, snap) ==
    LET slug == l.slugs_list[l.i]
        key == ScriptKey(slug)
        cached_script == Get(c, key, t)
        l1 == [l EXCEPT !.reads = Append(@, key)]
        \* retrieval_successful = False; break; scripts = []
        failed == [c |-> c, l |-> [l1 EXCEPT !.scripts = <<>>, !.pc = "fetch"]]
    IN  IF Truthy(cached_script)
        THEN IF DecompressOk(cached_script) /\ LoadsOk(Decompress(cached_script))
             THEN LET l2 == [l1 EXCEPT
                                !.temp_scripts = Append(@, Loads(Decompress(cached_script)))]
                  IN  IF l.i < Len(l.slugs_list)
                      THEN [c |-> c, l |-> [l2 EXCEPT !.i = @ + 1]]
                      ELSE [c |-> c,
                            l |-> [l2 EXCEPT !.scripts = l2.temp_scripts,
                                             !.pc = IF l2.temp_scripts # <<>>
                                                    THEN "score" ELSE "fetch"]]
             ELSE failed
        ELSE failed

\* a fetch whose empty result is written back like any other
StepFetchWriteEmpty(c, l, t, snap) ==
    [c |-> c,
     l |-> [l EXCEPT !.scripts = snap, !.fetched = snap, !.nfetch = @ + 1,
                     !.new_slugs = <<>>, !.j = 1,
                     !.pc = IF snap # <<>> THEN "set_entry" ELSE "set_index"]]

\* a fetch that is made once more when it has failed
StepFetchRetryOnce(c, l, t, snap) ==
    LET l1 == [l EXCEPT !.scripts = snap, !.fetched = snap, !.nfetch = @ + 1]
    IN  IF snap # <<>>
        THEN [c |-> c, l |-> [l1 EXCEPT !.new_slugs = <<>>, !.j = 1, !.pc = "set_entry"]]
        ELSE IF l.nfetch = 0
             THEN [c |-> c, l |-> l1]
             ELSE IF l.op = "init"
                  THEN [c |-> c, l |-> [l1 EXCEPT !.ret = "True", !.pc = "done"]]
                  ELSE [c |-> c, l |-> [l1 EXCEPT !.res = <<>>, !.pc = "done"]]

\* init, lines 168-174, and search, lines 266-270: scripts = _fetch_scripts()
StepFetch(c, l, t, snap) ==
    LET l1 == [l EXCEPT !.scripts = snap, !.fetched = snap, !.nfetch = @ + 1]
    IN  IF snap # <<>>
        THEN [c |-> c, l |-> [l1 EXCEPT !.new_slugs = <<>>, !.j = 1, !.pc = "set_entry"]]
        ELSE IF l.op = "init"
             THEN [c |-> c, l |-> [l1 EXCEPT !.ret = "True", !.pc = "done"]]
             ELSE [c |-> c, l |-> [l1 EXCEPT !.res = <<>>, !.pc = "done"]]

\* the write-back that stores the pickle without compressing it
StepSetEntryRaw(c, l, t, snap) ==
    LET script == l.scripts[l.j]
        slug == script.slug
        next == IF l.j < Len(l.scripts) THEN [l EXCEPT !.j = @ + 1]
                ELSE [l EXCEPT !.pc = "set_index"]
    IN  IF slug = <<>>
        THEN [c |-> c, l |-> next]
        ELSE LET l1 == [next EXCEPT !.new_slugs = Append(@, slug)]
                 serialized_script == Dumps(script)
             IN  IF BytesLen(serialized_script) > MAX_CACHE_VALUE_LEN
                 THEN [c |-> c, l |-> l1]
                 ELSE [c |-> Set(c, ScriptKey(slug), serialized_script, CACHE_TTL, t),
                       l |-> [l1 EXCEPT !.writes = Append(@, ScriptKey(slug))]]

\* the write-back that stops at a record over the size cap
StepSetEntryBreak(c, l, t, snap) ==
    LET script == l.scripts[l.j]
        slug == script.slug
        next == IF l.j < Len(l.scripts) THEN [l EXCEPT !.j = @ + 1]
                ELSE [l EXCEPT !.pc = "set_index"]
    IN  IF slug = <<>>
        THEN [c |-> c, l |-> next]
        ELSE LET l1 == [next EXCEPT !.new_slugs = Append(@, slug)]
                 serialized_script == Dumps(script)
                 compressed_script == Compress(serialized_script)
             IN  IF BytesLen(compressed_script) > MAX_CACHE_VALUE_LEN
                 THEN [c |-> c, l |-> [l1 EXCEPT !.pc = "set_index"]]
                 ELSE [c |-> Set(c, ScriptKey(slug), compressed_script, CACHE_TTL, t),
                       l |-> [l1 EXCEPT !.writes = Append(@, ScriptKey(slug))]]

\* init, lines 175-189 and 195-197, and search, lines 271-285 and 290-291:
\* one turn of the loop over scripts (the slug is appended before the size
\* check).  pickle.dumps or zlib.compress raises at the record of place
\* l.fail_at; the handler makes init return False and lets search go on
StepSetEntry(c, l, t, snap) ==
    LET script == l.scripts[l.j]
        slug == script.slug
        next == IF l.j < Len(l.scripts) THEN [l EXCEPT !.j = @ + 1]
                ELSE [l EXCEPT !.pc = "set_index"]
    IN  IF slug = <<>>
        THEN [c |-> c, l |-> next]
        ELSE LET l1 == [next EXCEPT !.new_slugs = Append(@, slug)]
                 serialized_script == Dumps(script)
                 compressed_script == Compress(serialized_script)
             IN  IF l.fail_at = l.j
                 THEN [c |-> c,
                       l |-> IF l.op = "init"
                             THEN [l EXCEPT !.new_slugs = Append(@, slug), !.failed = TRUE,
                                            !.ret = "False", !.pc = "done"]
                             ELSE [l EXCEPT !.new_slugs = Append(@, slug), !.failed = TRUE,
                                            !.pc = "score"]]
                 ELSE IF BytesLen(compressed_script) > MAX_CACHE_VALUE_LEN
                 THEN [c |-> c, l |-> l1]
                 ELSE [c |-> Set(c, ScriptKey(slug), compressed_script, CACHE_TTL, t),
                       l |-> [l1 EXCEPT !.writes = Append(@, ScriptKey(slug))]]

\* the index extended by the new slugs, not replaced by them
StepSetIndexExtend(c, l, t, snap) ==
    LET old == Get(c, IndexKey, t)
        slugs == IF old.t = "list" THEN old.v \o l.new_slugs ELSE l.new_slugs
    IN  [c |-> Set(c, IndexKey, ListVal(slugs), CACHE_TTL, t),
         l |-> IF l.op = "init"
               THEN [l EXCEPT !.writes = Append(@, IndexKey), !.ret = "True", !.pc = "done"]
               ELSE [l EXCEPT !.writes = Append(@, IndexKey), !.pc = "score"]]

\* init, lines 192-198, and search, lines 287-288: the index is written last
StepSetIndex(c, l, t, snap) ==
    [c |-> Set(c, IndexKey, ListVal(l.new_slugs), CACHE_TTL, t),
     l |-> IF l.op = "init"
           THEN [l EXCEPT !.writes = Append(@, IndexKey), !.ret = "True", !.pc = "done"]
           ELSE [l EXCEPT !.writes = Append(@, IndexKey), !.pc = "score"]]

\* search, lines 293-313
StepScore(c, l, t, snap) ==
    IF l.scripts = <<>>
    THEN [c |-> c, l |-> [l EXCEPT !.res = <<>>, !.pc = "done"]]
    ELSE LET words == Split(Lower(l.query))
         IN  [c |-> c, l |-> [l EXCEPT !.scored = l.scripts, !.ranked = TRUE,
                                       !.res = Results(l.scripts, words),
                                       !.pc = "done"]]

Step(c, l, t, snap) ==
    CASE l.pc = "start" -> StepStart(c, l, t, snap)
      [] l.pc = "get_entry" -> StepGetEntry(c, l, t, snap)
      [] l.pc = "fetch" -> StepFetch(c, l, t, snap)
      [] l.pc = "set_entry" -> StepSetEntry(c, l, t, snap)
      [] l.pc = "set_index" -> StepSetIndex(c, l, t, snap)
      [] l.pc = "score" -> StepScore(c, l, t, snap)

\* a whole call, with no other caller and no passing of time in between
RECURSIVE Run(_, _, _, _)
Run(c, l, t, snap) ==
    IF l.pc = "done" THEN [c |-> c, l |-> l]
    ELSE LET r == Step(c, l, t, snap) IN Run(r.c, r.l, t, snap)

-----------------------------------------------------------------------------
(* The engine with one caller: whole calls, and the cache's environment.   *)
(* last is history: the locals of the call that has just returned, Idle    *)
(* again once the clock or the store has moved.                            *)

TickStep == CACHE_TTL \div 2

\* the queries given to search: empty, blank, one word, one word among spaces
Queries == {<<>>, <<" ">>, <<" ", " ">>, <<"a">>, <<" ", "a", " ">>}

Procs == {1, 2}

Init ==
    /\ cache = [k \in Keys |-> Absent]
    /\ now = 0
    /\ last = Idle
    /\ loc = [p \in Procs |-> Idle]
    /\ pure = <<>>

\* a call up to the point where it fetches or returns
RECURSIVE BeforeFetch(_, _, _)
BeforeFetch(c, l, t) ==
    IF l.pc \in {"fetch", "done"} THEN [c |-> c, l |-> l]
    ELSE LET r == Step(c, l, t, <<>>) IN BeforeFetch(r.c, r.l, t)

\* one whole call op(query); the fetch, if the call makes one, returns any
\* of the snapshots of the catalogue or fails
Call(op, query) ==
    /\ LET r1 == BeforeFetch(cache, NewCall(op, query), now)
       IN  \E snap \in (IF r1.l.pc = "fetch" THEN FetchResults ELSE {<<>>}) :
               LET r == Run(r1.c, r1.l, now, snap)
               IN  /\ cache' = r.c
                   /\ last' = r.l
    /\ UNCHANGED <<now, loc, pure>>

init == Call("init", <<>>)

search == \E query \in Queries : Call("search", query)

\* time passes
Tick ==
    /\ now + TickStep <= MaxTicks * TickStep
    /\ now' = now + TickStep
    /\ last' = Idle
    /\ UNCHANGED <<cache, loc, pure>>

\* the store drops an entry
Evict ==
    \E k \in Keys :
        /\ Get(cache, k, now) # NoneVal
        /\ cache' = [cache EXCEPT ![k] = Absent]
        /\ last' = Idle
        /\ UNCHANGED <<now, loc, pure>>

\* the store damages the value of a record entry
Corrupt ==
    \E k \in Keys \ {IndexKey}, g \in {Garbage, GarbageZ} :
        /\ Get(cache, k, now) # NoneVal
        /\ cache[k].value # g
        /\ cache' = [cache EXCEPT ![k].value = g]
        /\ last' = Idle
        /\ UNCHANGED <<now, loc, pure>>

\* the index entry comes to hold an empty list or something that is no list
CorruptIndex ==
    \E v \in {ListVal(<<>>), NotAList} :
        /\ Get(cache, IndexKey, now) # NoneVal
        /\ cache[IndexKey].value # v
        /\ cache' = [cache EXCEPT ![IndexKey].value = v]
        /\ last' = Idle
        /\ UNCHANGED <<now, loc, pure>>

Next == init \/ search \/ Tick \/ Evict \/ Corrupt \/ CorruptIndex

Spec == Init /\ [][Next]_vars

-----------------------------------------------------------------------------
(* What the claims speak of, said of the cache itself *)

Blank(query) == \A i \in 1..Len(query) : query[i] = " "

\* the entry of key k is there and has not expired
Live(k) == cache[k].value.t # "None" /\ now < cache[k].expire

\* the index entry holds a non-empty list
IndexGood ==
    /\ Live(IndexKey)
    /\ cache[IndexKey].value.t = "list"
    /\ cache[IndexKey].value.v # <<>>

IndexSlugs == cache[IndexKey].value.v

\* the entry of a slug is there, decompresses and unpickles
EntryGood(slug) ==
    /\ Live(ScriptKey(slug))
    /\ cache[ScriptKey(slug)].value.t = "zlib"
    /\ cache[ScriptKey(slug)].value.data.t = "pickle"

CacheGood == IndexGood /\ \A k \in 1..Len(IndexSlugs) : EntryGood(IndexSlugs[k])

\* the position in the index of the first slug whose entry is bad
FirstBad ==
    CHOOSE k \in 1..Len(IndexSlugs) :
        /\ ~EntryGood(IndexSlugs[k])
        /\ \A m \in 1..(k - 1) : EntryGood(IndexSlugs[m])

\* the records of a list, as a set
Range(seq) == {seq[k] : k \in 1..Len(seq)}

\* the step is a whole call of search / of init
SearchStep == last'.op = "search" /\ Call("search", last'.query)
InitStep == last'.op = "init" /\ Call("init", <<>>)

-----------------------------------------------------------------------------
(* C1. Self-healing: a search that finds the index absent, empty or no     *)
(* list, or finds the entry of some indexed slug missing or undecodable,   *)
(* reads no entry beyond that slug, fetches once, and scores exactly what  *)
(* the fetch returned (nothing when the fetch fails): never a record it    *)
(* read from the cache, never the list short of the bad record.            *)
C1_SelfHealing ==
    [][(SearchStep /\ ~Blank(last'.query) /\ ~CacheGood) =>
              /\ last'.nfetch = 1
              /\ last'.scripts = last'.fetched
              /\ last'.fetched # <<>> => (last'.ranked /\ last'.scored = last'.fetched)
              /\ last'.fetched = <<>> => (~last'.ranked /\ last'.res = <<>>)
              /\ last'.reads =
                    IF IndexGood
                    THEN <<IndexKey>> \o [k \in 1..FirstBad |-> ScriptKey(IndexSlugs[k])]
                    ELSE <<IndexKey>>]_vars

\* a search read one good entry, met a bad one, and scored a fresh fetch
C1_Witness ==
    /\ last.op = "search"
    /\ last.temp_scripts # <<>>
    /\ Len(last.reads) = 3
    /\ last.nfetch = 1
    /\ last.ranked
    /\ last.scored = last.fetched

-----------------------------------------------------------------------------
(* C2. With one caller, the list a search scores holds records of one      *)
(* fetched snapshot only, never records of two versions of the catalogue.  *)
C2_OneSnapshot ==
    (last.op = "search" /\ last.ranked) =>
        \E snap \in Catalogue : Range(last.scored) \subseteq Range(snap)

-----------------------------------------------------------------------------
(* C3. After the write-back of a non-empty snapshot the index entry holds  *)
(* exactly the slugs whose record entry that write-back wrote, in snapshot *)
(* order; a record over the size cap is not in the index.                  *)
C3_IndexIsWhatWasWritten ==
    (last.pc = "done" /\ last.fetched # <<>>) =>
        /\ cache[IndexKey].value.t = "list"
        /\ LET written == SubSeq(last.writes, 1, Len(last.writes) - 1)
           IN  [k \in 1..Len(cache[IndexKey].value.v) |->
                    ScriptKey(cache[IndexKey].value.v[k])] = written

-----------------------------------------------------------------------------
(* C4. Round trip: the search that follows the write-back of a snapshot,   *)
(* with nothing happening to the cache in between, reconstructs from the   *)
(* cache a list equal to the written snapshot, in order.                   *)
C4_RoundTrip ==
    [][(/\ last.pc = "done" /\ last.fetched # <<>>
        /\ SearchStep /\ ~Blank(last'.query)) =>
              /\ last'.nfetch = 0
              /\ last'.scored = last.fetched]_vars

\* no record of the snapshot is over the size cap
WithinCap(snap) ==
    \A k \in 1..Len(snap) :
        StrBytes(snap[k].name) + StrBytes(snap[k].slug) + StrBytes(snap[k].description)
            <= MAX_CACHE_VALUE_LEN

(* C4, amended.  The round trip holds of a snapshot none of whose records  *)
(* is over the size cap: the following search reads the index and every    *)
(* entry, fetches nothing, and scores the written snapshot, in order.      *)
C4_RoundTripWithinCap ==
    [][(/\ last.pc = "done" /\ last.fetched # <<>> /\ WithinCap(last.fetched)
        /\ SearchStep /\ ~Blank(last'.query)) =>
              /\ last'.nfetch = 0
              /\ last'.scored = last.fetched
              /\ last'.reads = <<IndexKey>> \o
                    [k \in 1..Len(last.fetched) |-> ScriptKey(last.fetched[k].slug)]]_vars

\* a search has rebuilt from the cache, in index order, the snapshot that
\* lists slug b before slug a
C4_Witness ==
    /\ last.op = "search"
    /\ last.nfetch = 0
    /\ last.ranked
    /\ last.scored = Snap3
    /\ last.reads = <<IndexKey, ScriptKey(SlugB), ScriptKey(SlugA)>>

-----------------------------------------------------------------------------
(* C5. Fetched once per validity window: once a non-empty snapshot has     *)
(* been written back, a search with a non-blank query made before the TTL  *)
(* elapses, with no entry dropped or damaged, makes no fetch.              *)
C5_NoFetchWhileValid ==
    [][(/\ last.pc = "done" /\ last.fetched # <<>>
        /\ SearchStep /\ ~Blank(last'.query)) =>
              last'.nfetch = 0]_vars

-----------------------------------------------------------------------------
(* C7. An empty fetch result never overwrites the cache: init then returns *)
(* True and search returns no result, and the index entry and every record *)
(* entry are left as they were.                                            *)
C7_EmptyFetchKeepsCache ==
    [][((InitStep \/ SearchStep) /\ last'.nfetch = 1 /\ last'.fetched = <<>>) =>
              /\ cache' = cache
              /\ last'.writes = <<>>
              /\ last'.op = "init" => last'.ret = "True"
              /\ last'.op = "search" => last'.res = <<>>]_vars

\* a search's fetch failed while the cache held an index entry
C7_Witness ==
    /\ last.op = "search"
    /\ last.nfetch = 1
    /\ last.fetched = <<>>
    /\ last.res = <<>>
    /\ cache[IndexKey] # Absent

-----------------------------------------------------------------------------
(* C8. A query that is empty or all whitespace: search returns no result   *)
(* and reads nothing, writes nothing and fetches nothing.                  *)
C8_BlankQuery ==
    [][(SearchStep /\ Blank(last'.query)) =>
              /\ cache' = cache
              /\ last'.res = <<>>
              /\ last'.reads = <<>>
              /\ last'.writes = <<>>
              /\ last'.nfetch = 0]_vars

\* a search with a query of spaces returned while the cache held no index,
\* where any other query would have fetched
C8_Witness ==
    /\ last.op = "search"
    /\ last.pc = "done"
    /\ last.query # <<>>
    /\ Blank(last.query)
    /\ last.res = <<>>
    /\ cache[IndexKey] = Absent

-----------------------------------------------------------------------------
(* The engine with two callers and no lock: each caller's call advances    *)
(* one cache operation or one fetch at a time.  The catalogue versions     *)
(* fetched here hold no record over the size cap.                          *)

ConcFetchResults == {Snap1, Snap3, <<>>}
ConcQueries == {<<"a">>}

InitConc == Init

\* caller p enters init or search
Begin(p) ==
    /\ loc[p].pc = "idle"
    /\ \E op \in {"init", "search"}, query \in ConcQueries :
           loc' = [loc EXCEPT ![p] = NewCall(op, IF op = "init" THEN <<>> ELSE query)]
    /\ UNCHANGED <<cache, now, last, pure>>

\* caller p makes its next cache operation or its fetch
Advance(p) ==
    /\ loc[p].pc \notin {"idle", "done"}
    /\ \E snap \in (IF loc[p].pc = "fetch" THEN ConcFetchResults ELSE {<<>>}) :
           LET r == Step(cache, loc[p], now, snap)
           IN  /\ cache' = r.c
               /\ loc' = [loc EXCEPT ![p] = r.l]
    /\ UNCHANGED <<now, last, pure>>

\* caller p's call returns
Return(p) ==
    /\ loc[p].pc = "done"
    /\ loc' = [loc EXCEPT ![p] = Idle]
    /\ UNCHANGED <<cache, now, last, pure>>

NextConc == \E p \in Procs : Begin(p) \/ Advance(p) \/ Return(p)

SpecConc == InitConc /\ [][NextConc]_vars

-----------------------------------------------------------------------------
(* C6. With no lock: a search whose reads interleave with another caller's *)
(* write-back never scores a list built from the half-written state; it    *)
(* meets a missing entry and refetches, so what it scores is one snapshot. *)
C6_NoHalfWrittenList ==
    \A p \in Procs :
        (loc[p].op = "search" /\ loc[p].ranked) =>
            \E snap \in Catalogue : Range(loc[p].scored) \subseteq Range(snap)

-----------------------------------------------------------------------------
(* _score_script as a function: one record, one query *)

NameAlphabet == {"a", "B"}
QueryAlphabet == {"a", "B", " "}

InitScore ==
    /\ cache = [k \in Keys |-> Absent]
    /\ now = 0
    /\ last = Idle
    /\ loc = [p \in Procs |-> Idle]
    /\ pure \in {[script |-> Script(<<"s">>, name, description), query |-> query,
                  words |-> <<>>, score |-> 0, done |-> FALSE] :
                     name \in SeqsUpTo(NameAlphabet, MaxStrLen),
                     description \in SeqsUpTo(NameAlphabet, MaxStrLen),
                     query \in SeqsUpTo(QueryAlphabet, MaxScoreQueryLen)}

\* words = query.lower().split(); _score_script(script, words)
ApplyScore ==
    /\ ~pure.done
    /\ LET words == Split(Lower(pure.query))
       IN  pure' = [pure EXCEPT !.words = words,
                                !.score = score_script(pure.script, words),
                                !.done = TRUE]
    /\ UNCHANGED <<cache, now, last, loc>>

NextScore == ApplyScore

SpecScore == InitScore /\ [][NextScore]_vars

RECURSIVE SumTo(_, _)
SumTo(f, n) == IF n = 0 THEN 0 ELSE f[n] + SumTo(f, n - 1)

\* words with token t put in at position k + 1
WithToken(words, k, t) ==
    SubSeq(words, 1, k) \o <<t>> \o SubSeq(words, k + 1, Len(words))

Tokens == SeqsUpTo({"a", "b"}, 2) \ {<<>>}

-----------------------------------------------------------------------------
(* C9. Scoring is conjunctive: with every token in the lower-cased name or *)
(* description, the score is the sum over the tokens of 10 for the name    *)
(* and 5 for the description; with some token in neither, it is 0.  So a   *)
(* token added that is in neither field makes the score 0 and keeps the    *)
(* record out of the results, whatever the other tokens match.             *)
C9_ConjunctiveScore ==
    (pure.done /\ pure.words # <<>>) =>
        LET name_lower == Lower(pure.script.name)
            desc_lower == Lower(pure.script.description)
            words == pure.words
            each == [k \in 1..Len(words) |->
                        (IF Contains(words[k], name_lower) THEN 10 ELSE 0)
                      + (IF Contains(words[k], desc_lower) THEN 5 ELSE 0)]
        IN  /\ pure.score = IF \A k \in 1..Len(words) : each[k] > 0
                            THEN SumTo(each, Len(words)) ELSE 0
            /\ \A t \in Tokens, k \in 0..Len(words) :
                   (~Contains(t, name_lower) /\ ~Contains(t, desc_lower)) =>
                       /\ score_script(pure.script, WithToken(words, k, t)) = 0
                       /\ Results(<<pure.script>>, WithToken(words, k, t)) = <<>>

\* two tokens, one of them in the name, and yet the score is 0
C9_Witness ==
    /\ pure.done
    /\ Len(pure.words) = 2
    /\ Contains(pure.words[1], Lower(pure.script.name))
    /\ pure.score = 0

-----------------------------------------------------------------------------
(* The ranking of search as a function: a loaded list and the query "a".   *)
(* The list holds up to MaxListLen records, all alike but for at most      *)
(* MaxOdd of them; a record's slug is its place in the list in unary.      *)

Kinds == {"none", "name", "both"}

KindName(kind) == IF kind = "none" THEN <<"b">> ELSE <<"A">>
KindDescription(kind) == IF kind = "both" THEN <<"b", "a">> ELSE <<>>

RECURSIVE OddPlaces(_, _)
OddPlaces(n, m) ==
    IF m = 0 THEN {{}}
    ELSE LET fewer == OddPlaces(n, m - 1)
         IN  fewer \cup {P \cup {i} : P \in fewer, i \in 1..n}

\* the list of n records of kind base, but for those at the places of odd
RankList(n, base, odd) ==
    [i \in 1..n |->
        LET kind == IF i \in DOMAIN odd THEN odd[i] ELSE base
        IN  Script([k \in 1..i |-> "x"], KindName(kind), KindDescription(kind))]

InitRank ==
    /\ cache = [k \in Keys |-> Absent]
    /\ now = 0
    /\ last = Idle
    /\ loc = [p \in Procs |-> Idle]
    /\ \E n \in 0..MaxListLen, base \in Kinds :
           \E P \in OddPlaces(n, MaxOdd) :
               \E odd \in [P -> Kinds] :
                   pure = [scripts |-> RankList(n, base, odd), query |-> <<"a">>,
                           words |-> <<>>, ranked |-> <<>>, res |-> <<>>, done |-> FALSE]

\* lines 296-311 of search on the loaded list
ApplyRank ==
    /\ ~pure.done
    /\ LET words == Split(Lower(pure.query))
       IN  pure' = [pure EXCEPT !.words = words,
                                !.ranked = Ranked(pure.scripts, words),
                                !.res = Results(pure.scripts, words),
                                !.done = TRUE]
    /\ UNCHANGED <<cache, now, last, loc>>

NextRank == ApplyRank

SpecRank == InitRank /\ [][NextRank]_vars

\* the score of the record at each place of the list
Scores == [i \in 1..Len(pure.scripts) |-> score_script(pure.scripts[i], pure.words)]

\* the places of the list whose record matches
MatchingOf(sc) == {i \in DOMAIN sc : sc[i] > 0}

\* the record at place i goes before the record at place j
Before(sc, i, j) == sc[i] > sc[j] \/ (sc[i] = sc[j] /\ i < j)

\* the place in the results of the record at each matching place of the list
RankOf(sc) ==
    [i \in MatchingOf(sc) |-> 1 + Cardinality({j \in MatchingOf(sc) : Before(sc, j, i)})]

-----------------------------------------------------------------------------
(* C10. Ranking: the results are the records of score > 0 by descending    *)
(* score, records of equal score in the order of the loaded list, cut to   *)
(* the first 20.                                                           *)
C10_Ranking ==
    pure.done =>
        LET sc == Scores
            matching == MatchingOf(sc)
            rank == RankOf(sc)
        IN  /\ Len(pure.res) = IF Cardinality(matching) < 20 THEN Cardinality(matching) ELSE 20
            /\ Len(pure.ranked) = Len(pure.res)
            /\ \A i \in matching :
                   rank[i] <= 20 =>
                       /\ pure.res[rank[i]] = MainResult(pure.scripts[i])
                       /\ pure.ranked[rank[i]] = <<sc[i], pure.scripts[i]>>

\* more than 20 records match, and a later record outranks an earlier one
\* that the cut then drops
C10_Witness ==
    /\ pure.done
    /\ Len(pure.res) = 20
    /\ LET sc == Scores
           matching == MatchingOf(sc)
           rank == RankOf(sc)
       IN  /\ Cardinality(matching) > 20
           /\ \E i, j \in matching : i < j /\ Before(sc, j, i) /\ rank[i] > 20

-----------------------------------------------------------------------------
(* _fetch_scripts as a function of the response of the catalogue's API.    *)
(* A JSON value, as resp.json() gives it, is a record tagged with its      *)
(* Python type; a dict holds a function from its keys to JSON values.      *)

DESC_LIMIT == 500

MaxTokens == 3       \* entries and category marks of a payload in SpecFetch
MaxDescOver == 1     \* characters of a description beyond DESC_LIMIT

JNull == [t |-> "null"]
JTrue == [t |-> "bool", v |-> TRUE]
JFalse == [t |-> "bool", v |-> FALSE]
JStr(s) == [t |-> "str", v |-> s]
JList(l) == [t |-> "list", v |-> l]
JDict(d) == [t |-> "dict", v |-> d]

\* d.get(key, default)
DictGet(d, key, default) == IF key \in DOMAIN d.v THEN d.v[key] ELSE default

\* s[:n]
Prefix(s, n) == SubSeq(s, 1, IF Len(s) < n THEN Len(s) ELSE n)

\* the loop body without the check of seen
FetchEntryNoSeen(script, seen, scripts) ==
    LET skip == [seen |-> seen, scripts |-> scripts]
    IN  IF script.t # "dict" THEN skip
        ELSE LET name == DictGet(script, "name", JNull)
                 slug == DictGet(script, "slug", JNull)
                 disable == DictGet(script, "disable", JNull)
                 description == DictGet(script, "description", JNull)
             IN  IF name.t # "str" \/ slug.t # "str" THEN skip
                 ELSE IF Strip(name.v) = <<>> \/ Strip(slug.v) = <<>> THEN skip
                 ELSE IF disable.t = "bool" /\ disable.v THEN skip
                 ELSE [seen |-> seen \cup {Strip(slug.v)},
                       scripts |-> Append(scripts,
                           Script(Strip(slug.v), Strip(name.v),
                                  IF description.t = "str"
                                  THEN Prefix(description.v, DESC_LIMIT) ELSE <<>>))]

\* the loop body that keeps name and slug as they came and the whole description
FetchEntryRaw(script, seen, scripts) ==
    LET skip == [seen |-> seen, scripts |-> scripts]
    IN  IF script.t # "dict" THEN skip
        ELSE LET name == DictGet(script, "name", JNull)
                 slug == DictGet(script, "slug", JNull)
                 disable == DictGet(script, "disable", JNull)
                 description == DictGet(script, "description", JNull)
             IN  IF name.t # "str" \/ slug.t # "str" THEN skip
                 ELSE IF Strip(name.v) = <<>> \/ Strip(slug.v) = <<>> THEN skip
                 ELSE IF disable.t = "bool" /\ disable.v THEN skip
                 ELSE IF slug.v \in seen THEN skip
                 ELSE [seen |-> seen \cup {slug.v},
                       scripts |-> Append(scripts,
                           Script(slug.v, name.v,
                                  IF description.t = "str" THEN description.v ELSE <<>>))]

\* lines 108-148: one turn of the loop over category_scripts
FetchEntry(script, seen, scripts) ==
    LET skip == [seen |-> seen, scripts |-> scripts]
    IN  IF script.t # "dict" THEN skip
        ELSE LET name == DictGet(script, "name", JNull)
                 slug == DictGet(script, "slug", JNull)
                 disable == DictGet(script, "disable", JNull)
                 description == DictGet(script, "description", JNull)
             IN  IF name.t # "str" \/ slug.t # "str" THEN skip
                 ELSE IF Strip(name.v) = <<>> \/ Strip(slug.v) = <<>> THEN skip
                 ELSE IF disable.t = "bool" /\ disable.v THEN skip
                 ELSE IF Strip(slug.v) \in seen THEN skip
                 ELSE [seen |-> seen \cup {Strip(slug.v)},
                       scripts |-> Append(scripts,
                           Script(Strip(slug.v), Strip(name.v),
                                  IF description.t = "str"
                                  THEN Prefix(description.v, DESC_LIMIT) ELSE <<>>))]

\* lines 107-148: the loop over category_scripts from entry k on
RECURSIVE FetchEntryLoop(_, _, _, _)
FetchEntryLoop(category_scripts, k, seen, scripts) ==
    IF k > Len(category_scripts) THEN [seen |-> seen, scripts |-> scripts]
    ELSE LET r == FetchEntry(category_scripts[k], seen, scripts)
         IN  FetchEntryLoop(category_scripts, k + 1, r.seen, r.scripts)

\* the loop over data that stops at the first malformed category
RECURSIVE FetchCategoryLoopBreak(_, _, _, _)
FetchCategoryLoopBreak(data, k, seen, scripts) ==
    IF k > Len(data) THEN scripts
    ELSE LET category == data[k]
         IN  IF category.t # "dict" THEN scripts
             ELSE LET category_scripts == DictGet(category, "scripts", JList(<<>>))
                  IN  IF category_scripts.t # "list" THEN scripts
                      ELSE LET r == FetchEntryLoop(category_scripts.v, 1, seen, scripts)
                           IN  FetchCategoryLoopBreak(data, k + 1, r.seen, r.scripts)

\* lines 97-150: the loop over data from category k on
RECURSIVE FetchCategoryLoop(_, _, _, _)
FetchCategoryLoop(data, k, seen, scripts) ==
    IF k > Len(data) THEN scripts
    ELSE LET category == data[k]
         IN  IF category.t # "dict"
             THEN FetchCategoryLoop(data, k + 1, seen, scripts)
             ELSE LET category_scripts == DictGet(category, "scripts", JList(<<>>))
                  IN  IF category_scripts.t # "list"
                      THEN FetchCategoryLoop(data, k + 1, seen, scripts)
                      ELSE LET r == FetchEntryLoop(category_scripts.v, 1, seen, scripts)
                           IN  FetchCategoryLoop(data, k + 1, r.seen, r.scripts)

\* what get(...) gives: an exception, or a status code and a body that is
\* JSON or is not
RespRaises == [kind |-> "raises"]
Resp(status_code, body) == [kind |-> "response", status_code |-> status_code, body |-> body]
NotJson == [t |-> "invalid"]

\* lines 80-150
fetch_scripts(resp) ==
    IF resp.kind = "raises" THEN <<>>
    ELSE IF resp.status_code # 200 THEN <<>>
    ELSE IF resp.body.t = "invalid" THEN <<>>
    ELSE IF resp.body.t # "list" THEN <<>>
    ELSE FetchCategoryLoop(resp.body.v, 1, {}, <<>>)

-----------------------------------------------------------------------------
(* The responses given to _fetch_scripts.  A payload is written as a row   *)
(* of up to MaxTokens tokens: a script entry goes into the category being  *)
(* filled, a mark closes that category and, but for the plain break, puts  *)
(* a malformed category behind it.                                         *)

Rep(c, n) == [i \in 1..n |-> c]

EntryA ==
    JDict([name |-> JStr(<<"a">>), slug |-> JStr(<<"a">>), description |-> JStr(<<"d">>)])
\* the slug of EntryA once trimmed, another name, a description over the limit
EntryA2 ==
    JDict([name |-> JStr(<<" ", "B", " ">>), slug |-> JStr(<<" ", "a">>),
           disable |-> JFalse, description |-> JStr(Rep("d", DESC_LIMIT + MaxDescOver))])
\* the slug of EntryA, disabled
EntryAOff ==
    JDict([name |-> JStr(<<"c">>), slug |-> JStr(<<"a">>),
           disable |-> JTrue, description |-> JStr(<<"d">>)])
\* a slug to trim, a description that is no str
EntryB ==
    JDict([name |-> JStr(<<"b">>), slug |-> JStr(<<"b", " ">>), description |-> JNull])
\* a blank name, a description of just DESC_LIMIT characters
EntryBlank ==
    JDict([name |-> JStr(<<" ", " ">>), slug |-> JStr(<<"b">>),
           description |-> JStr(Rep("e", DESC_LIMIT))])
EntryNoName == JDict([slug |-> JStr(<<"b">>)])
EntryNotDict == JStr(<<"b">>)

EntryPool == {EntryA, EntryA2, EntryAOff, EntryB, EntryBlank, EntryNoName, EntryNotDict}

Mark(kind) == [t |-> "mark", v |-> kind]
Marks == {Mark("break"), Mark("notdict"), Mark("notlist"), Mark("nokey")}

TokenPool == EntryPool \cup Marks

Category(entries) == JDict([name |-> JStr(<<"c">>), scripts |-> JList(entries)])

MalformedCategory(kind) ==
    CASE kind = "notdict" -> JStr(<<"c">>)
      [] kind = "notlist" -> JDict([name |-> JStr(<<"c">>), scripts |-> JNull])
      [] kind = "nokey" -> JDict([name |-> JStr(<<"c">>)])

RECURSIVE PayloadLoop(_, _, _)
PayloadLoop(tokens, current, cats) ==
    IF tokens = <<>> THEN Append(cats, Category(current))
    ELSE LET tok == Head(tokens)
         IN  IF tok.t = "mark"
             THEN PayloadLoop(Tail(tokens), <<>>,
                              Append(cats, Category(current)) \o
                                  (IF tok.v = "break" THEN <<>>
                                   ELSE <<MalformedCategory(tok.v)>>))
             ELSE PayloadLoop(Tail(tokens), Append(current, tok), cats)

PayloadOf(tokens) == PayloadLoop(tokens, <<>>, <<>>)

Responses ==
    {RespRaises, Resp(404, JList(PayloadOf(<<EntryA>>))), Resp(200, NotJson),
     Resp(200, Category(<<EntryA>>)), Resp(200, JList(<<>>))}
    \cup {Resp(200, JList(PayloadOf(tokens))) : tokens \in SeqsUpTo(TokenPool, MaxTokens)}

InitFetch ==
    /\ cache = [k \in Keys |-> Absent]
    /\ now = 0
    /\ last = Idle
    /\ loc = [p \in Procs |-> Idle]
    /\ pure \in {[resp |-> resp, scripts |-> <<>>, done |-> FALSE] : resp \in Responses}

\* scripts = _fetch_scripts()
ApplyFetch ==
    /\ ~pure.done
    /\ pure' = [pure EXCEPT !.scripts = fetch_scripts(pure.resp), !.done = TRUE]
    /\ UNCHANGED <<cache, now, last, loc>>

NextFetch == ApplyFetch

SpecFetch == InitFetch /\ [][NextFetch]_vars

-----------------------------------------------------------------------------
(* What the claims about _fetch_scripts speak of, said of the payload      *)

\* the API answered 200 with a JSON list
Served ==
    /\ pure.resp.kind = "response"
    /\ pure.resp.status_code = 200
    /\ pure.resp.body.t = "list"

Data == pure.resp.body.v

WellFormed(category) ==
    /\ category.t = "dict"
    /\ "scripts" \in DOMAIN category.v => category.v.scripts.t = "list"

EntriesOf(category) ==
    IF "scripts" \in DOMAIN category.v THEN category.v.scripts.v ELSE <<>>

\* the places <<category, entry>> of the script entries of the payload
Places ==
    UNION {{<<ci, si>> : si \in 1..Len(EntriesOf(Data[ci]))} :
               ci \in {c \in 1..Len(Data) : WellFormed(Data[c])}}

EntryAt(p) == EntriesOf(Data[p[1]])[p[2]]

\* scan order: categories top to bottom, entries within a category top to bottom
Earlier(p, q) == p[1] < q[1] \/ (p[1] = q[1] /\ p[2] < q[2])

HasStr(e, key) == e.t = "dict" /\ key \in DOMAIN e.v /\ e.v[key].t = "str"

Flagged(e) ==
    e.t = "dict" /\ "disable" \in DOMAIN e.v /\ e.v.disable.t = "bool" /\ e.v.disable.v

Trimmed(s) == s = <<>> \/ (s[1] \notin {" ", "\t"} /\ s[Len(s)] \notin {" ", "\t"})

\* the entry carries slug s
Carries(e, s) == HasStr(e, "slug") /\ Strip(e.v.slug.v) = s

\* the entry passes validation: a dict with a str name and a str slug, both
\* non-blank, and not disabled
Acceptable(e) ==
    /\ HasStr(e, "name") /\ Strip(e.v.name.v) # <<>>
    /\ HasStr(e, "slug") /\ Strip(e.v.slug.v) # <<>>
    /\ ~Flagged(e)

\* record r is entry e normalized
Same(r, e) ==
    /\ HasStr(e, "name") /\ r.name = Strip(e.v.name.v)
    /\ HasStr(e, "slug") /\ r.slug = Strip(e.v.slug.v)
    /\ r.description =
          IF HasStr(e, "description")
          THEN [i \in 1..(IF Len(e.v.description.v) < 500
                          THEN Len(e.v.description.v) ELSE 500) |-> e.v.description.v[i]]
          ELSE <<>>

\* the places of the records of the snapshot that have slug s
Hits(s) == {k \in 1..Len(pure.scripts) : pure.scripts[k].slug = s}

\* the first of a non-empty set of places
First(P) == CHOOSE p \in P : \A q \in P : q = p \/ Earlier(p, q)

-----------------------------------------------------------------------------
(* C11. Deduplication: when two script entries of the payload carry the    *)
(* same slug, in one category or in two, the snapshot holds exactly one    *)
(* record of that slug, and it is the first of the entries carrying that   *)
(* slug in scan order.                                                     *)
C11_Dedup ==
    (pure.done /\ Served) =>
        \A p, q \in Places :
            (p # q /\ HasStr(EntryAt(p), "slug")
                   /\ Carries(EntryAt(q), Strip(EntryAt(p).v.slug.v))) =>
                LET s == Strip(EntryAt(p).v.slug.v)
                    first == First({x \in Places : Carries(EntryAt(x), s)})
                IN  /\ Cardinality(Hits(s)) = 1
                    /\ \A k \in Hits(s) : Same(pure.scripts[k], EntryAt(first))

(* C11, amended.  When two script entries that pass validation carry the   *)
(* same trimmed slug, the snapshot holds exactly one record of that slug,  *)
(* and it is the first in scan order of the entries of that slug that pass *)
(* validation; and a slug that no such entry carries is in no record.      *)
C11_DedupAcceptable ==
    (pure.done /\ Served) =>
        /\ \A p, q \in Places :
               (p # q /\ Acceptable(EntryAt(p)) /\ Acceptable(EntryAt(q))
                      /\ Carries(EntryAt(q), Strip(EntryAt(p).v.slug.v))) =>
                   LET s == Strip(EntryAt(p).v.slug.v)
                       first == First({x \in Places : Acceptable(EntryAt(x))
                                                      /\ Carries(EntryAt(x), s)})
                   IN  /\ Cardinality(Hits(s)) = 1
                       /\ \A k \in Hits(s) : Same(pure.scripts[k], EntryAt(first))
        /\ \A k \in 1..Len(pure.scripts) :
               \E p \in Places : /\ Acceptable(EntryAt(p))
                                 /\ Carries(EntryAt(p), pure.scripts[k].slug)

\* two entries of slug a that pass validation, with different names, in two
\* categories, and the snapshot has the one record of the first
C11_Witness ==
    /\ pure.done /\ Served
    /\ \E p, q \in Places :
           /\ p[1] < q[1]
           /\ EntryAt(p) = EntryA2 /\ EntryAt(q) = EntryA
           /\ Hits(<<"a">>) = {1}
           /\ pure.scripts[1].name = <<"B">>

-----------------------------------------------------------------------------
(* C12. Every record of a snapshot has a name and a slug that are not      *)
(* empty and are trimmed, a description of at most 500 characters, comes   *)
(* from an entry the source has not flagged disabled, and shares its slug  *)
(* with no other record of the snapshot.                                   *)
C12_RecordsWellFormed ==
    pure.done =>
        /\ pure.scripts # <<>> => Served
        /\ \A k \in 1..Len(pure.scripts) :
               LET r == pure.scripts[k]
               IN  /\ r.name # <<>> /\ Trimmed(r.name)
                   /\ r.slug # <<>> /\ Trimmed(r.slug)
                   /\ Len(r.description) <= 500
                   /\ \E p \in Places : Same(r, EntryAt(p)) /\ ~Flagged(EntryAt(p))
                   /\ \A m \in 1..Len(pure.scripts) :
                          pure.scripts[m].slug = r.slug => m = k

\* a record whose name and slug were trimmed and whose description was cut
\* to 500 characters, next to a disabled entry that was left out
C12_Witness ==
    /\ pure.done /\ Served
    /\ \E p, q \in Places : EntryAt(p) = EntryA2 /\ EntryAt(q) = EntryAOff
    /\ Len(pure.scripts) = 1
    /\ pure.scripts[1].name = <<"B">>
    /\ pure.scripts[1].slug = <<"a">>
    /\ Len(pure.scripts[1].description) = 500

-----------------------------------------------------------------------------
(* C13. Malformed categories, script lists and entries are skipped one by  *)
(* one: the snapshot is the entries that pass validation and are the first *)
(* of their slug, normalized, in scan order; a response that is no 200     *)
(* with a JSON list gives the empty snapshot.                              *)

\* the places of the entries that become records
Accepted ==
    {p \in Places :
        /\ Acceptable(EntryAt(p))
        /\ ~\E q \in Places : /\ Earlier(q, p)
                              /\ Acceptable(EntryAt(q))
                              /\ Carries(EntryAt(q), Strip(EntryAt(p).v.slug.v))}

C13_SkipOneByOne ==
    pure.done =>
        IF Served
        THEN /\ Len(pure.scripts) = Cardinality(Accepted)
             /\ \A p \in Accepted :
                    Same(pure.scripts[1 + Cardinality({q \in Accepted : Earlier(q, p)})],
                         EntryAt(p))
        ELSE pure.scripts = <<>>

\* a malformed category between two categories, each of which gives a record
C13_Witness ==
    /\ pure.done /\ Served
    /\ Len(pure.scripts) = 2
    /\ \E ci \in 1..Len(Data) :
           /\ ~WellFormed(Data[ci])
           /\ \E p, q \in Accepted : p[1] < ci /\ ci < q[1]

-----------------------------------------------------------------------------
(* C14. Oversized records stay usable: when the fetch of a search returns  *)
(* a snapshot with a record over the size cap, every other record is       *)
(* written to the cache, the entry of the oversized record is left as it   *)
(* was, and the list scored is the whole fetched snapshot.                 *)

\* the compressed pickle of the record is within the size cap
Fits(script) == WithinCap(<<script>>)

C14_OversizedUsable ==
    [][(SearchStep /\ last'.nfetch = 1 /\ last'.fetched # <<>>
                   /\ ~WithinCap(last'.fetched)) =>
              /\ last'.ranked
              /\ last'.scored = last'.fetched
              /\ last'.res = Results(last'.fetched, Split(Lower(last'.query)))
              /\ \A k \in 1..Len(last'.fetched) :
                     LET script == last'.fetched[k]
                         key == ScriptKey(script.slug)
                     IN  IF Fits(script)
                         THEN /\ cache'[key].value.t = "zlib"
                              /\ cache'[key].value.data.t = "pickle"
                              /\ cache'[key].value.data.obj = script
                              /\ cache'[key].expire = now + CACHE_TTL
                         ELSE cache'[key] = cache[key]]_vars

\* a search fetched the snapshot whose record a is over the cap, wrote the
\* entry of b and the index only, and returned a among its results
C14_Witness ==
    /\ last.op = "search"
    /\ last.fetched = Snap2
    /\ last.scored = Snap2
    /\ last.writes = <<ScriptKey(SlugB), IndexKey>>
    /\ \E k \in 1..Len(last.res) : last.res[k].url = SlugA

-----------------------------------------------------------------------------
(* The display text of search as a function of one description: "x" all    *)
(* through, but for the places of WsPlaces, each of which may hold a space *)
(* or a tab; the length lies around the limit of 300.                      *)

MaxOver == 2         \* characters of a description beyond CONTENT_LIMIT

WsPlaces == {1, 295, 300, 301}

DescLengths == ((CONTENT_LIMIT - 1)..(CONTENT_LIMIT + MaxOver)) \cup {CONTENT_LIMIT + 10}

Desc(n, f) == [i \in 1..n |-> IF i \in DOMAIN f THEN f[i] ELSE "x"]

InitContent ==
    /\ cache = [k \in Keys |-> Absent]
    /\ now = 0
    /\ last = Idle
    /\ loc = [p \in Procs |-> Idle]
    /\ \E n \in DescLengths, f \in [WsPlaces -> {"x", " ", "\t"}] :
           pure = [script |-> Script(<<"s">>, <<"n">>, Desc(n, f)),
                   content |-> <<>>, done |-> FALSE]

\* lines 300-311 for one scored record
ApplyContent ==
    /\ ~pure.done
    /\ pure' = [pure EXCEPT !.content = MainResult(pure.script).content, !.done = TRUE]
    /\ UNCHANGED <<cache, now, last, loc>>

NextContent == ApplyContent

SpecContent == InitContent /\ [][NextContent]_vars

Ellipsis == <<".", ".", ".">>

\* the text before the ellipsis marker of a truncated display text
BeforeMarker == SubSeq(pure.content, 1, Len(pure.content) - 3)

Whitespace == {" ", "\t"}

-----------------------------------------------------------------------------
(* C15. Display text: a description of at most 300 characters is returned  *)
(* as it is; a longer one is cut at the last whitespace among its first    *)
(* 300 characters and followed by "...", and the text before the marker is *)
(* at most 300 characters long and does not end in the middle of a word.   *)
C15_DisplayText ==
    pure.done =>
        LET d == pure.script.description
            h == Len(BeforeMarker)
            ws == {i \in 1..300 : d[i] \in Whitespace}
        IN  IF Len(d) <= 300 THEN pure.content = d
            ELSE /\ pure.content = [i \in 1..h |-> d[i]] \o Ellipsis
                 /\ h <= 300
                 /\ ws # {} => \A i \in ws : i <= h + 1
                 /\ h = 0 \/ d[h] \in Whitespace \/ d[h + 1] \in Whitespace

(* C15, amended.  A description of at most 300 characters is returned as   *)
(* it is; a longer one is cut in front of the last space character among   *)
(* its first 300 characters, or after 300 characters when these hold no    *)
(* space, and followed by "...": the text before the marker is at most 300 *)
(* characters long, and it ends at a word boundary whenever the first 300  *)
(* characters hold a space.                                                *)
C15_DisplayTextAtSpace ==
    pure.done =>
        LET d == pure.script.description
            sp == {i \in 1..300 : d[i] = " "}
            h == IF sp = {} THEN 300 ELSE (CHOOSE i \in sp : \A j \in sp : j <= i) - 1
        IN  IF Len(d) <= 300 THEN pure.content = d
            ELSE /\ pure.content = [i \in 1..h |-> d[i]] \o Ellipsis
                 /\ Len(BeforeMarker) <= 300
                 /\ sp # {} => d[Len(BeforeMarker) + 1] = " "

\* a description of 310 characters with its last space at place 295 is cut
\* to its first 294 characters and the marker
C15_Witness ==
    /\ pure.done
    /\ Len(pure.script.description) = 310
    /\ pure.script.description[295] = " "
    /\ pure.script.description[300] = "x"
    /\ Len(pure.content) = 297
    /\ BeforeMarker = SubSeq(pure.script.description, 1, 294)

-----------------------------------------------------------------------------
(* The engine with one caller whose call advances one cache operation or   *)
(* one fetch at a time, while other calls of init run and the store drops  *)
(* and damages entries in between.                                         *)

NextStepwise ==
    \/ Begin(1) \/ Advance(1) \/ Return(1)
    \/ init
    \/ Evict
    \/ Corrupt
    \/ CorruptIndex

SpecStepwise == InitConc /\ [][NextStepwise]_vars

\* the call has read a record from the entry of every slug of the index
Reconstructed(l) == l.slugs_list # <<>> /\ Len(l.temp_scripts) = Len(l.slugs_list)

\* how far a call is from its return: the part of the code it is in, and
\* the turns its loop has yet to make
Stage(pc) ==
    CASE pc = "start" -> 6
      [] pc = "get_entry" -> 5
      [] pc = "fetch" -> 4
      [] pc = "set_entry" -> 3
      [] pc = "set_index" -> 2
      [] pc = "score" -> 1
      [] OTHER -> 0

Turns(l) ==
    CASE l.pc = "get_entry" -> Len(l.slugs_list) - l.i
      [] l.pc = "set_entry" -> Len(l.scripts) - l.j
      [] OTHER -> 0

\* the lexicographic order on <<Stage, Turns>>
Closer(l2, l1) ==
    /\ Turns(l2) >= 0
    /\ \/ Stage(l2.pc) < Stage(l1.pc)
       \/ Stage(l2.pc) = Stage(l1.pc) /\ Turns(l2) < Turns(l1)

-----------------------------------------------------------------------------
(* C16. Each call of search returns: every step it takes brings it closer  *)
(* to its return in a well-founded order, so it takes finitely many, and   *)
(* no step is one it can wait at for ever (a cache operation, the fetch    *)
(* with its timeout, a computation on finite lists).  It asks the remote   *)
(* catalogue at most once: not at all when it has rebuilt the list from    *)
(* the cache, once when it has not, also when that one fetch fails.        *)
C16_TerminatesOneFetch ==
    [][(loc[1].op = "search" /\ loc'[1] # loc[1] /\ loc[1].pc \notin {"idle", "done"}) =>
              /\ Closer(loc'[1], loc[1])
              /\ loc'[1].nfetch <= 1
              /\ loc'[1].nfetch = 1 => ~Reconstructed(loc'[1])
              /\ (loc'[1].pc = "done" /\ ~Blank(loc'[1].query)) =>
                     /\ loc'[1].nfetch = IF Reconstructed(loc'[1]) THEN 0 ELSE 1
                     /\ Reconstructed(loc'[1]) => loc'[1].scored = loc'[1].temp_scripts
                     /\ ~Reconstructed(loc'[1]) => loc'[1].scripts = loc'[1].fetched]_vars

\* a search met a damaged entry after a good one, fetched once, the fetch
\* failed, and the search has returned without a second fetch
C16_Witness ==
    /\ loc[1].op = "search"
    /\ loc[1].pc = "done"
    /\ Len(loc[1].temp_scripts) = 1
    /\ loc[1].nfetch = 1
    /\ loc[1].fetched = <<>>

-----------------------------------------------------------------------------
(* The engine with one caller, whole calls, where the serialization or the *)
(* compression of a record may raise during a write-back.  The catalogue   *)
(* versions fetched here hold no record over the size cap.                 *)

\* the place in the fetched list of the record whose serialization raises,
\* 0 for none
FailPoints == 0..2

CallFailing(op, query, fail) ==
    /\ LET r1 == BeforeFetch(cache, [NewCall(op, query) EXCEPT !.fail_at = fail], now)
       IN  \E snap \in (IF r1.l.pc = "fetch" THEN ConcFetchResults ELSE {<<>>}) :
               LET r == Run(r1.c, r1.l, now, snap)
               IN  /\ cache' = r.c
                   /\ last' = r.l
    /\ UNCHANGED <<now, loc, pure>>

initFailing == \E fail \in FailPoints : CallFailing("init", <<>>, fail)

searchFailing == \E query \in Queries, fail \in FailPoints : CallFailing("search", query, fail)

NextFail == initFailing \/ searchFailing \/ Tick \/ Evict

SpecFail == Init /\ [][NextFail]_vars

\* the step is a whole call of search / of init
SearchFailingStep ==
    last'.op = "search" /\ CallFailing("search", last'.query, last'.fail_at)
InitFailingStep ==
    last'.op = "init" /\ CallFailing("init", <<>>, last'.fail_at)

-----------------------------------------------------------------------------
(* C17. A failure of serialization or compression part-way through a       *)
(* write-back is soft: init returns False, search scores the fetched list, *)
(* neither raises; and it corrects itself: the next search fetches the     *)
(* catalogue again, it does not serve what the cut-short write-back left.  *)
C17_WriteFailureSoft ==
    [][/\ (InitFailingStep /\ last'.failed) => last'.ret = "False"
       /\ (SearchFailingStep /\ last'.failed) =>
              (last'.ranked /\ last'.scored = last'.fetched)
       /\ (/\ last.pc = "done" /\ last.failed /\ last.writes # <<>>
           /\ SearchFailingStep /\ ~Blank(last'.query)) =>
              last'.nfetch = 1]_vars

-----------------------------------------------------------------------------
(* C18. Bounded staleness: every record that a search returns from the     *)
(* cache is the value of an entry written, by the write-back of a fetch,   *)
(* less than 12 hours before that search; and a search that finds the      *)
(* index entry or the entry of an indexed slug expired fetches again.      *)

\* every write is made with expire=_CACHE_TTL: the time an entry was written
WrittenAt(k) == cache[k].expire - CACHE_TTL

\* the entry is there and its time to live is over
Expired(k) == cache[k].value.t # "None" /\ now >= cache[k].expire

-----------------------------------------------------------------------------
(* C19. Redundant refreshes are harmless: when two searches have both      *)
(* found the cache stale and both fetched and written back the same        *)
(* snapshot, none of its records over the size cap, then however their     *)
(* cache writes interleaved the index entry and the record entries are     *)
(* those that one write-back of that snapshot leaves (as to their values;  *)
(* their times of expiry are those of the two write-backs), and each       *)
(* search returns the results computed from that snapshot.                 *)

\* the cache after one write-back of snap into an empty cache
SingleWriteBack(snap) ==
    Run([k \in Keys |-> Absent], NewCall("init", <<>>), now, snap).c

C19_RedundantRefresh ==
    (/\ \A p \in Procs : /\ loc[p].op = "search" /\ loc[p].pc = "done"
                         /\ loc[p].nfetch = 1 /\ loc[p].fetched # <<>>
     /\ loc[1].fetched = loc[2].fetched
     /\ WithinCap(loc[1].fetched)) =>
        /\ \A k \in Keys : cache[k].value = SingleWriteBack(loc[1].fetched)[k].value
        /\ cache[IndexKey].value =
               ListVal([k \in 1..Len(loc[1].fetched) |-> loc[1].fetched[k].slug])
        /\ \A k \in 1..Len(loc[1].fetched) :
               cache[ScriptKey(loc[1].fetched[k].slug)].value.data.obj = loc[1].fetched[k]
        /\ \A p \in Procs :
               /\ loc[p].scored = loc[p].fetched
               /\ loc[p].res = Results(loc[p].fetched, Split(Lower(loc[p].query)))

\* both searches found no index, both fetched the same snapshot, both wrote
\* it back and both have returned
C19_Witness ==
    /\ \A p \in Procs : /\ loc[p].op = "search" /\ loc[p].pc = "done"
                        /\ loc[p].reads = <<IndexKey>>
                        /\ loc[p].fetched = Snap3
                        /\ Len(loc[p].writes) = 3

====
